---- MODULE Spec2Model ----
(***************************************************************************)
(* Model of src/instr.py: column resolution (normalize_column_name,        *)
(* find_column), the line-location splitter (parse_line_location) and the  *)
(* batch driver generate_sticker_labels (column map, required-column       *)
(* check, temporary file, progress indicator, per-record QR payload and    *)
(* the element sequence handed to the document build, the tables of each   *)
(* label with their cells, widths and heights, the logo and QR outcomes    *)
(* and the exception handlers), and main: its chained width sliders with   *)
(* their float arithmetic, the read of the uploaded file and the call of   *)
(* generate_sticker_labels behind the button.                              *)
(*                                                                         *)
(* Python strings are TLA+ strings; a character is a string of length 1.   *)
(***************************************************************************)
EXTENDS Integers, Sequences, FiniteSets, TLC

VARIABLES
    pc,               \* position in generate_sticker_labels
    columns,          \* df.columns
    df_index,         \* df.index: the label of each record
    found_columns,    \* canonical field -> bound column
    missing_required, \* required fields absent from found_columns
    st_errors,        \* messages passed to st.error
    tmp_file,         \* "absent" | "exists" | "deleted"
    today_date,       \* the date string of line 263
    total_rows,       \* len(df)
    progress_bar,     \* values given to the progress indicator; <<>> before it exists
    index,            \* the label iterrows gave for the record of the latest iteration
    position,         \* records whose iteration has finished
    row,              \* cells of the record of the iteration in progress
    qr_data,          \* payload of that record
    location_boxes,   \* parse_line_location of that record
    all_elements,     \* flowables collected for doc.build
    returned,         \* what generate_sticker_labels returned
    uploaded_first_box_logo, \* argument: "None" | "valid" | "corrupt" (an upload PIL cannot read)
    line_loc_widths,  \* arguments line_loc_header_width .. line_loc_box4_width, floats
    first_box_logo,   \* "None" | "Image"
    label_layouts,    \* data, colWidths and rowHeights of the tables of each record laid out
    fc_pc,          \* find_column call: "call" | "returned" | "idle"
    fc_columns,     \* df.columns of the find_column call
    fc_names,       \* possible_names of the find_column call
    fc_result,      \* value returned by find_column
    pl_pc,          \* parse_line_location call: "call" | "returned" | "idle"
    pl_input,       \* location_string
    pl_result,      \* value returned by parse_line_location
    m_pc,                  \* position in main: the slider to come, "generate", then how it ended
    line_loc_header_width, \* the floats of lines 702-749 of main
    remaining_width,
    line_loc_box1_width,
    remaining_after_box1,
    line_loc_box2_width,
    remaining_after_box2,
    line_loc_box3_width,
    line_loc_box4_width,
    total_width,
    call_widths            \* the five fractions main passed to generate_sticker_labels

gen_vars == <<pc, columns, df_index, found_columns, missing_required, st_errors, tmp_file,
              today_date, total_rows, progress_bar, index, position, row, qr_data,
              location_boxes, all_elements, returned, uploaded_first_box_logo,
              line_loc_widths, first_box_logo, label_layouts>>
lay_vars == <<uploaded_first_box_logo, line_loc_widths, first_box_logo, label_layouts>>
fc_vars == <<fc_pc, fc_columns, fc_names, fc_result>>
main_vars == <<m_pc, line_loc_header_width, remaining_width, line_loc_box1_width,
               remaining_after_box1, line_loc_box2_width, remaining_after_box2,
               line_loc_box3_width, line_loc_box4_width, total_width, call_widths>>
pl_vars == <<pl_pc, pl_input, pl_result>>

(***************************************************************************)
(* Bounds of the model                                                     *)
(***************************************************************************)
MaxColumns == 3         \* longest header list of a dataset (beside the scenario's)
MaxRows == 2            \* most records in a dataset
MaxFindColumns == 3     \* longest header list given to find_column alone
MaxFindNames == 2       \* longest variant list given to find_column alone
MaxLocLen == 5          \* longest location string given to the splitter
MaxBoxSteps == 3        \* most single steps of 0.01 a box slider is moved above its minimum

(***************************************************************************)
(* Characters and strings                                                  *)
(***************************************************************************)
LowerCase ==
    {"a","b","c","d","e","f","g","h","i","j","k","l","m",
     "n","o","p","q","r","s","t","u","v","w","x","y","z"}

Digits == {"0","1","2","3","4","5","6","7","8","9"}

ToLower ==
    ("A" :> "a") @@ ("B" :> "b") @@ ("C" :> "c") @@ ("D" :> "d") @@
    ("E" :> "e") @@ ("F" :> "f") @@ ("G" :> "g") @@ ("H" :> "h") @@
    ("I" :> "i") @@ ("J" :> "j") @@ ("K" :> "k") @@ ("L" :> "l") @@
    ("M" :> "m") @@ ("N" :> "n") @@ ("O" :> "o") @@ ("P" :> "p") @@
    ("Q" :> "q") @@ ("R" :> "r") @@ ("S" :> "s") @@ ("T" :> "t") @@
    ("U" :> "u") @@ ("V" :> "v") @@ ("W" :> "w") @@ ("X" :> "x") @@
    ("Y" :> "y") @@ ("Z" :> "z")

\* re.sub(r'[^a-zA-Z0-9]', '', c).lower() for one character c
NormalizeChar(c) ==
    IF c \in LowerCase \cup Digits THEN c
    ELSE IF c \in DOMAIN ToLower THEN ToLower[c]
    ELSE ""

\* normalize_column_name: drop every non-alphanumeric character, lower-case
RECURSIVE normalize_column_name(_)
normalize_column_name(col_name) ==
    IF col_name = "" THEN ""
    ELSE NormalizeChar(Head(col_name)) \o normalize_column_name(Tail(col_name))

\* Python's  sub in s  on strings
StrIn(sub, s) ==
    \E i \in 1..(Len(s) - Len(sub) + 1) : SubSeq(s, i, i + Len(sub) - 1) = sub

(***************************************************************************)
(* find_column                                                             *)
(***************************************************************************)
NoneCol == [found |-> FALSE, col |-> ""]
SomeCol(c) == [found |-> TRUE, col |-> c]

\* Keys of  {normalize_column_name(col): col for col in df.columns}  in
\* insertion order: a key keeps the position of its first occurrence.
RECURSIVE DictKeys(_)
DictKeys(df_columns) ==
    IF df_columns = <<>> THEN <<>>
    ELSE LET n == Len(df_columns)
             front == DictKeys(SubSeq(df_columns, 1, n - 1))
             k == normalize_column_name(df_columns[n])
         IN IF \E i \in 1..Len(front) : front[i] = k THEN front
            ELSE Append(front, k)

\* Value stored under a key of that dict: a later column with the same
\* normalized name overwrites the earlier one.
DictValue(df_columns, key) ==
    LET idx == {i \in 1..Len(df_columns) : normalize_column_name(df_columns[i]) = key}
    IN df_columns[CHOOSE i \in idx : \A j \in idx : j <= i]

\* Line 35
NormalizedNames(possible_names) ==
    [i \in 1..Len(possible_names) |-> normalize_column_name(possible_names[i])]

\* Line 49: the line-location keyword test on a normalized header
LineLocKeyword(df_norm_name) ==
    \/ StrIn("line", df_norm_name) /\ StrIn("location", df_norm_name)
    \/ StrIn("lineloc", df_norm_name)

\* Lines 37-39: first variant (priority order) that is a key of the dict
ExactStep(df_columns, names) ==
    LET keys == DictKeys(df_columns)
        hit == {v \in 1..Len(names) : \E k \in 1..Len(keys) : keys[k] = names[v]}
    IN IF hit = {} THEN NoneCol
       ELSE LET v == CHOOSE x \in hit : \A y \in hit : x <= y
            IN SomeCol(DictValue(df_columns, names[v]))

\* Lines 42-45: variants outer loop, dict items inner loop
PartialStep(df_columns, names) ==
    LET keys == DictKeys(df_columns)
        Rel(v, k) == StrIn(names[v], keys[k]) \/ StrIn(keys[k], names[v])
        hit == {v \in 1..Len(names) : \E k \in 1..Len(keys) : Rel(v, k)}
    IN IF hit = {} THEN NoneCol
       ELSE LET v == CHOOSE x \in hit : \A y \in hit : x <= y
                ks == {k \in 1..Len(keys) : Rel(v, k)}
                k == CHOOSE x \in ks : \A y \in ks : x <= y
            IN SomeCol(DictValue(df_columns, keys[k]))

\* Lines 48-50: first dict item whose key carries the line-location keywords
KeywordStep(df_columns) ==
    LET keys == DictKeys(df_columns)
        ks == {k \in 1..Len(keys) : LineLocKeyword(keys[k])}
    IN IF ks = {} THEN NoneCol
       ELSE LET k == CHOOSE x \in ks : \A y \in ks : x <= y
            IN SomeCol(DictValue(df_columns, keys[k]))

\* Variant of find_column that tries the partial matches before the exact ones
find_column_PartialFirst(df_columns, possible_names) ==
    LET names == NormalizedNames(possible_names)
        exact == ExactStep(df_columns, names)
        partial == PartialStep(df_columns, names)
    IN IF partial.found THEN partial
       ELSE IF exact.found THEN exact
       ELSE KeywordStep(df_columns)

find_column(df_columns, possible_names) ==
    LET names == NormalizedNames(possible_names)
        exact == ExactStep(df_columns, names)
        partial == PartialStep(df_columns, names)
    IN IF exact.found THEN exact
       ELSE IF partial.found THEN partial
       ELSE KeywordStep(df_columns)

(***************************************************************************)
(* parse_line_location                                                     *)
(***************************************************************************)
\* A cell or argument value: NaN, None or a string
NaN == [kind |-> "nan", s |-> ""]
None == [kind |-> "none", s |-> ""]
Str(s) == [kind |-> "str", s |-> s]

\* pd.isna / pd.notna on a scalar
isna(v) == v.kind \in {"nan", "none"}
notna(v) == ~isna(v)

\* Python truthiness of such a value: None and "" are falsy, NaN is truthy
Truthy(v) == \/ v.kind = "nan"
             \/ v.kind = "str" /\ v.s # ""

\* str(v)
PyStr(v) == IF v.kind = "nan" THEN "nan"
            ELSE IF v.kind = "none" THEN "None"
            ELSE v.s

\* s.split("_"): the parts between underscores, always at least one part
RECURSIVE SplitUnderscore(_)
SplitUnderscore(s) ==
    IF s = "" THEN <<"">>
    ELSE LET rest == SplitUnderscore(Tail(s))
         IN IF Head(s) = "_" THEN <<"">> \o rest
            ELSE <<Head(s) \o rest[1]>> \o Tail(rest)

\* parts[:n]
Take(seq, n) == SubSeq(seq, 1, IF Len(seq) < n THEN Len(seq) ELSE n)

\* [""] * n  (a non-positive n gives the empty list)
Blanks(n) == [i \in 1..n |-> ""]

\* Variant of PadCount that pads one slot too few
PadCountShort(parts) == 3 - Len(parts)

PadCount(parts) == 4 - Len(parts)

parse_line_location(location_string) ==
    IF ~Truthy(location_string) \/ isna(location_string)
    THEN <<"", "", "", "">>
    ELSE LET parts == SplitUnderscore(PyStr(location_string))
             result == Take(parts, 4) \o Blanks(PadCount(parts))
         IN Take(result, 4)

(***************************************************************************)
(* generate_sticker_labels                                                 *)
(***************************************************************************)
Fields ==
    <<"ASSLY", "part_no", "description", "Part_per_veh", "container_type",
      "Type", "line_location", "part_status">>

FieldSet == {Fields[i] : i \in 1..Len(Fields)}

\* Lines 156-179
column_mappings ==
    [ASSLY |->
        <<"assly", "ASSY NAME", "Assy Name", "assy name", "assyname",
          "assy_name", "Assy_name", "Assembly", "Assembly Name", "ASSEMBLY",
          "Assembly_Name">>,
     part_no |->
        <<"PARTNO", "PARTNO.", "Part No", "Part Number", "PartNo",
          "partnumber", "part no", "partnum", "PART", "part", "Product Code",
          "Item Number", "Item ID", "Item No", "item", "Item">>,
     description |->
        <<"DESCRIPTION", "Description", "Desc", "Part Description",
          "ItemDescription", "item description", "Product Description",
          "Item Description", "NAME", "Item Name", "Product Name">>,
     Part_per_veh |->
        <<"QYT", "QTY / VEH", "Qty/Veh", "Qty Bin", "Quantity per Bin",
          "qty bin", "qtybin", "quantity bin", "BIN QTY", "BINQTY",
          "QTY_BIN", "QTY_PER_BIN", "Bin Quantity", "BIN">>,
     container_type |->
        <<"CONTAINER", "Container", "container", "BIN TYPE", "Bin Type",
          "bin type", "bintype", "BINTYPE", "Container Type", "container type",
          "CONTAINER_TYPE", "container_type", "ContainerType">>,
     Type |->
        <<"TYPE", "type", "Type", "tyPe", "Type name">>,
     line_location |->
        <<"LINE LOCATION", "Line Location", "line location", "LINELOCATION",
          "linelocation", "Line_Location", "line_location", "LINE_LOCATION",
          "LineLocation", "line_loc", "lineloc", "LINELOC", "Line Loc">>,
     part_status |->
        <<"PART STATUS", "Part Status", "part status", "PARTSTATUS",
          "partstatus", "Part_Status", "part_status", "PART_STATUS",
          "PartStatus", "STATUS", "Status", "status", "Item Status",
          "Component Status", "Part State", "State">>]

\* Line 189
required_columns == <<"ASSLY", "part_no", "description">>

\* Lines 182-186: a field is entered only when find_column's value is truthy
FindColumns(df_columns) ==
    LET found_col == [f \in FieldSet |-> find_column(df_columns, column_mappings[f])]
        bound == {f \in FieldSet : found_col[f].found /\ found_col[f].col # ""}
    IN [f \in bound |-> found_col[f].col]

\* Variant of MissingRequired that looks at the first required column only
MissingRequiredFirstOnly(found) ==
    SelectSeq(SubSeq(required_columns, 1, 1), LAMBDA col : col \notin DOMAIN found)

\* Line 190
MissingRequired(found) ==
    SelectSeq(required_columns, LAMBDA col : col \notin DOMAIN found)

\* Variant of Cell that reads the first cell whatever the column
CellFirst(df_columns, cells, name) == cells[1]

\* row[name]: the cell of the record under the column called name
Cell(df_columns, cells, name) ==
    cells[CHOOSE i \in 1..Len(df_columns) : df_columns[i] = name]

\* Lines 293-295: a required field
RequiredValue(found, df_columns, cells, f) ==
    IF f \in DOMAIN found THEN PyStr(Cell(df_columns, cells, found[f]))
    ELSE "N/A"

\* Lines 296-300: an optional field
OptionalValue(found, df_columns, cells, f) ==
    IF f \in DOMAIN found /\ notna(Cell(df_columns, cells, found[f]))
    THEN PyStr(Cell(df_columns, cells, found[f]))
    ELSE ""

\* Variant of OptionalLine that writes the line whatever the value
OptionalLineAlways(label, value) == label \o ": " \o value \o "\n"

\* One  if value: qr_data += f"{label}: {value}\n"  of lines 305-314
OptionalLine(label, value) ==
    IF value # "" THEN label \o ": " \o value \o "\n" ELSE ""

\* Lines 304-315
QrData(found, df_columns, cells, date) ==
    LET ASSLY == RequiredValue(found, df_columns, cells, "ASSLY")
        part_no == RequiredValue(found, df_columns, cells, "part_no")
        desc == RequiredValue(found, df_columns, cells, "description")
        Part_per_veh == OptionalValue(found, df_columns, cells, "Part_per_veh")
        container_type == OptionalValue(found, df_columns, cells, "container_type")
        Type == OptionalValue(found, df_columns, cells, "Type")
        line_location_raw == OptionalValue(found, df_columns, cells, "line_location")
        part_status == OptionalValue(found, df_columns, cells, "part_status")
    IN "ASSLY: " \o ASSLY \o "\n" \o "Part No: " \o part_no \o "\n"
         \o "Description: " \o desc \o "\n"
         \o OptionalLine("QTY/VEH", Part_per_veh)
         \o OptionalLine("Container Type", container_type)
         \o OptionalLine("Type", Type)
         \o OptionalLine("Part Status", part_status)
         \o OptionalLine("Line Location", line_location_raw)
         \o "Date: " \o date

\* strftime("%d-%m-%Y") of a date [d, m, y]
Digit(n) == SubSeq("0123456789", n + 1, n + 1)
Pad2(n) == Digit(n \div 10) \o Digit(n % 10)
FormatDate(t) == Pad2(t.d) \o "-" \o Pad2(t.m) \o "-" \o Pad2(t.y \div 100) \o Pad2(t.y % 100)

\* Line 287: a label of df.index as iterrows gives it: a number, or a label
\* that is not a number (a text)
Label(v) == [numeric |-> TRUE, v |-> v]
TextLabel == [numeric |-> FALSE, v |-> 0]

\* index before the first iteration has bound it
Unbound == [numeric |-> FALSE, v |-> -1]

\* Lines 509-516: the flowables of the i-th record (from 0), in the order
\* they are added
LabelElements(i) ==
    <<[kind |-> "assly_table", record |-> i],
      [kind |-> "partno_table", record |-> i],
      [kind |-> "desc_table", record |-> i],
      [kind |-> "bottom_section_table", record |-> i],
      [kind |-> "location_table", record |-> i],
      [kind |-> "Spacer", record |-> i]>>

PageBreak(i) == [kind |-> "PageBreak", record |-> i]

\* Lines 522-523: if index < len(df) - 1, index being the label of the record
NeedsPageBreak(label, n) == label.v < n - 1

\* Line 288: (index + 1) / total_rows, index being the label of the record
ProgressValue(label, n) == [num |-> label.v + 1, den |-> n]

(***************************************************************************)
(* Floats.  Python floats are IEEE 754 doubles.  A double is held as its   *)
(* sign, its 53-bit significand in two limbs and its exponent,             *)
(*     x = (-1)^neg * (hi * 2^28 + lo) * 2^exp,   2^52 <= hi * 2^28 + lo   *)
(* (hi = lo = 0 for 0.0), and every operation below rounds its exact       *)
(* result to the nearest double, ties to even, so that the arithmetic is   *)
(* the arithmetic of the doubles and not that of the reals.  Subnormal     *)
(* doubles, infinities and NaN do not arise from lines 360-366, 702-749.   *)
(***************************************************************************)
Pow2 == [n \in 0..30 |-> 2^n]

Dbl(neg, hi, lo, exp) == [neg |-> neg, hi |-> hi, lo |-> lo, exp |-> exp]

Zero == Dbl(FALSE, 0, 0, 0)

IsZero(x) == x.hi = 0 /\ x.lo = 0

Neg(x) == IF IsZero(x) THEN x ELSE Dbl(~x.neg, x.hi, x.lo, x.exp)
IsNegative(x) == x.neg

\* |x| < |y|
MagLess(x, y) ==
    IF IsZero(x) THEN ~IsZero(y)
    ELSE IF IsZero(y) THEN FALSE
    ELSE \/ x.exp < y.exp
         \/ x.exp = y.exp /\ x.hi < y.hi
         \/ x.exp = y.exp /\ x.hi = y.hi /\ x.lo < y.lo

\* x <= y on floats
LessEq(x, y) ==
    IF x.neg # y.neg THEN x.neg
    ELSE IF x.neg THEN ~MagLess(x, y)
    ELSE ~MagLess(y, x)

\* The 56-bit number hi * 2^28 + lo > 0 shifted left until its top bit is bit 55
RECURSIVE NormalizeLeft(_, _, _)
NormalizeLeft(hi, lo, exp) ==
    IF hi >= Pow2[27] THEN <<hi, lo, exp>>
    ELSE NormalizeLeft((hi * 2) + (lo \div Pow2[27]), (lo % Pow2[27]) * 2, exp - 1)

\* The double nearest to (hi * 2^28 + lo) * 2^exp, ties to even, for a
\* number of 56 bits: the low three bits are the guard, round and sticky bit
RoundExtended(neg, hi, lo, exp) ==
    LET rest == lo % 8
        mlo == (lo \div 8) + ((hi % 8) * Pow2[25])
        mhi == hi \div 8
        up == rest > 4 \/ (rest = 4 /\ (mlo % 2) = 1)
    IN IF ~up THEN Dbl(neg, mhi, mlo, exp + 3)
       ELSE IF mlo + 1 < Pow2[28] THEN Dbl(neg, mhi, mlo + 1, exp + 3)
       ELSE IF mhi + 1 < Pow2[25] THEN Dbl(neg, mhi + 1, 0, exp + 3)
       ELSE Dbl(neg, Pow2[24], 0, exp + 4)

\* The double nearest to (hi * 2^28 + lo) * 2^exp for a number below 2^57
\* whose bit 0 stands for everything below it
Round(neg, hi, lo, exp) ==
    IF hi = 0 /\ lo = 0 THEN Zero
    ELSE IF hi >= Pow2[28]
    THEN LET half == (lo \div 2) + ((hi % 2) * Pow2[27])
         IN RoundExtended(neg, hi \div 2,
                          IF (lo % 2) = 1 /\ (half % 2) = 0 THEN half + 1 ELSE half,
                          exp + 1)
    ELSE LET n == NormalizeLeft(hi, lo, exp)
         IN RoundExtended(neg, n[1], n[2], n[3])

\* The significand of x with three more bits, as <<hi, lo>>
Extended(x) == <<(x.hi * 8) + (x.lo \div Pow2[25]), (x.lo % Pow2[25]) * 8>>

\* hi * 2^28 + lo shifted right by d bits; bit 0 is set when a bit was lost
ShiftRightSticky(hi, lo, d) ==
    LET hi2 == IF d < 28 THEN hi \div Pow2[d] ELSE 0
        lo2 == IF d < 28 THEN (lo \div Pow2[d]) + ((hi % Pow2[d]) * Pow2[28 - d])
               ELSE IF d < 56 THEN hi \div Pow2[d - 28]
               ELSE 0
        lost == IF d < 28 THEN (lo % Pow2[d]) # 0
                ELSE IF d < 56 THEN lo # 0 \/ (hi % Pow2[d - 28]) # 0
                ELSE lo # 0 \/ hi # 0
    IN <<hi2, IF lost /\ (lo2 % 2) = 0 THEN lo2 + 1 ELSE lo2>>

\* a + b for |a| >= |b| > 0
AddOrdered(a, b) ==
    LET ea == Extended(a)
        eb0 == Extended(b)
        eb == ShiftRightSticky(eb0[1], eb0[2], a.exp - b.exp)
        sum == ea[2] + eb[2]
        diff == ea[2] - eb[2]
    IN IF a.neg = b.neg
       THEN Round(a.neg, ea[1] + eb[1] + (sum \div Pow2[28]), sum % Pow2[28], a.exp - 3)
       ELSE IF diff >= 0
       THEN Round(a.neg, ea[1] - eb[1], diff, a.exp - 3)
       ELSE Round(a.neg, ea[1] - eb[1] - 1, diff + Pow2[28], a.exp - 3)

\* x + y and x - y on floats
FloatAdd(x, y) ==
    IF IsZero(x) THEN y
    ELSE IF IsZero(y) THEN x
    ELSE IF MagLess(x, y) THEN AddOrdered(y, x)
    ELSE AddOrdered(x, y)

FloatSub(x, y) == FloatAdd(x, Neg(y))

FloatAbs(x) == Dbl(FALSE, x.hi, x.lo, x.exp)

\* The sum of the floats of w, added from the left
RECURSIVE FloatSum(_)
FloatSum(w) ==
    IF Len(w) = 1 THEN w[1]
    ELSE FloatAdd(FloatSum(SubSeq(w, 1, Len(w) - 1)), w[Len(w)])

\* The significand of x in four limbs of 14 bits, the lowest first
Limbs(x) == <<x.lo % Pow2[14], x.lo \div Pow2[14], x.hi % Pow2[14], x.hi \div Pow2[14]>>

\* x * y on floats: the limbs are multiplied column by column, the carries
\* are passed up, and the top 57 bits of the 106-bit product are rounded
FloatMul(x, y) ==
    IF IsZero(x) \/ IsZero(y) THEN Zero
    ELSE LET a == Limbs(x)
             b == Limbs(y)
             c0 == a[1] * b[1]
             c1 == (a[1] * b[2]) + (a[2] * b[1]) + (c0 \div Pow2[14])
             c2 == (a[1] * b[3]) + (a[2] * b[2]) + (a[3] * b[1]) + (c1 \div Pow2[14])
             c3 == (a[1] * b[4]) + (a[2] * b[3]) + (a[3] * b[2]) + (a[4] * b[1])
                   + (c2 \div Pow2[14])
             c4 == (a[2] * b[4]) + (a[3] * b[3]) + (a[4] * b[2]) + (c3 \div Pow2[14])
             c5 == (a[3] * b[4]) + (a[4] * b[3]) + (c4 \div Pow2[14])
             c6 == (a[4] * b[4]) + (c5 \div Pow2[14])
             p3 == c3 % Pow2[14]
             p4 == c4 % Pow2[14]
             p5 == c5 % Pow2[14]
             p6 == c6 % Pow2[14]
             p7 == c6 \div Pow2[14]
             hi2 == (p7 * Pow2[21]) + (p6 * Pow2[7]) + (p5 \div Pow2[7])
             lo2 == ((p5 % Pow2[7]) * Pow2[21]) + (p4 * Pow2[7]) + (p3 \div Pow2[7])
             lost == (p3 % Pow2[7]) # 0 \/ (c2 % Pow2[14]) # 0
                     \/ (c1 % Pow2[14]) # 0 \/ (c0 % Pow2[14]) # 0
         IN Round(x.neg # y.neg, hi2,
                  IF lost /\ (lo2 % 2) = 0 THEN lo2 + 1 ELSE lo2,
                  x.exp + y.exp + 49)

\* The bits the significand is extended by before it is divided by d <= 128
QuotientBits(d) ==
    IF d <= 2 THEN 4 ELSE IF d <= 4 THEN 5 ELSE IF d <= 8 THEN 6
    ELSE IF d <= 16 THEN 7 ELSE IF d <= 32 THEN 8 ELSE IF d <= 64 THEN 9 ELSE 10

\* x / d on floats for an integer d in 1..128: the significand is divided
\* limb by limb, a remainder sets the sticky bit
FloatDiv(x, d) ==
    IF IsZero(x) THEN Zero
    ELSE LET k == QuotientBits(d)
             t2 == ((x.hi % d) * Pow2[14]) + (x.lo \div Pow2[14])
             t3 == ((t2 % d) * Pow2[14]) + (x.lo % Pow2[14])
             t4 == (t3 % d) * Pow2[k]
             mid == ((t2 \div d) * Pow2[14]) + (t3 \div d)
             lo2 == ((mid % Pow2[28 - k]) * Pow2[k]) + (t4 \div d)
             hi2 == ((x.hi \div d) * Pow2[k]) + (mid \div Pow2[28 - k])
         IN Round(x.neg, hi2, IF (t4 % d) # 0 /\ (lo2 % 2) = 0 THEN lo2 + 1 ELSE lo2,
                  x.exp - k)

\* min(x, y) of Python: y when y < x, else x
FloatMin(x, y) == IF LessEq(x, y) THEN x ELSE y

\* The float of the integer n >= 0
FloatOfInt(n) == Round(FALSE, 0, n, 0)

\* The float a literal or a slider position of k hundredths denotes
Float(k) == FloatDiv(FloatOfInt(k), 100)

\* Lines 704-707, 718-721: the range and the step of the sliders in hundredths
SliderMin == 5
HeaderMax == 50

\* The positions of a slider that are tried: in steps of 0.01 those no more
\* than MaxBoxSteps steps above the minimum, and every fifth up to 0.50
SliderPositions ==
    {Float(k) : k \in (SliderMin..(SliderMin + MaxBoxSteps))
                      \cup {5 * i : i \in 1..(HeaderMax \div 5)}}

\* The values a slider with min_value 0.05, the given max_value and the given
\* initial value returns: the initial value as long as it was not moved, a
\* position from min_value up to max_value once it was
SliderValues(max_value, value) ==
    {value} \cup {v \in SliderPositions : LessEq(v, max_value)}

\* An initial value that is 0.20 whatever is left
InitialValueUncapped(remaining, parts) == Float(20)

\* Lines 719, 729, 739: value=min(0.20, remaining / parts)
InitialValue(remaining, parts) == FloatMin(Float(20), FloatDiv(remaining, parts))

(***************************************************************************)
(* Layout of one label.  A width that is a literal fraction of             *)
(* content_width is in thousandths of content_width, a width made from an  *)
(* argument is the float in points that the code computes, a height is in  *)
(* hundredths of a centimetre.  A cell is what the code puts in            *)
(* the table data: a plain string, a Paragraph, an Image or a nested       *)
(* Table; the text of a Paragraph of record data is named by the variable  *)
(* it is made from.                                                        *)
(***************************************************************************)
StrCell(s) == [cell |-> "str", of |-> s]
ParagraphCell(v) == [cell |-> "Paragraph", of |-> v]
ImageCell(v) == [cell |-> "Image", of |-> v]
TableCell(v) == [cell |-> "Table", of |-> v]

\* Lines 54-111: an Image, or None when the upload cannot be processed
process_uploaded_logo(uploaded_logo) ==
    IF uploaded_logo = "valid" THEN "Image" ELSE "None"

\* Lines 324-328
ASSLY_row_height == 85
part_row_height == 80
desc_row_height == 50
bottom_row_height == 60
location_row_height == 50

\* Line 337
first_box_content_dropped(logo) ==
    IF logo # "None" THEN <<ImageCell("first_box_logo")>> ELSE <<>>

first_box_content(logo) ==
    IF logo # "None" THEN <<ImageCell("first_box_logo")>> ELSE <<StrCell("")>>

\* Lines 317-321: the QR image, or the placeholder when generate_qr_code gave None
qr_cell_dropped(qr_image) ==
    IF qr_image # "None" THEN <<ImageCell("qr_image")>> ELSE <<>>

qr_cell(qr_image) ==
    IF qr_image # "None" THEN <<ImageCell("qr_image")>> ELSE <<ParagraphCell("QR")>>

\* Lines 340-358
col_widths_assly == <<250, 150, 600>>
col_widths_partno == <<250, 500, 250>>
col_widths_standard == <<250, 750>>
col_widths_bottom_section == <<600, 400>>

\* Line 15 of reportlab.lib.units: cm = inch / 2.54 = 28.346456692913385
cm == Dbl(FALSE, 29723414, 46500630, -48)

\* Lines 25, 261: content_width = CONTENT_BOX_WIDTH = 9.8 * cm
content_width == FloatMul(Float(980), cm)

\* Lines 360-366: content_width times each fraction of the caller, as it is
col_widths_bottom(widths) == [k \in 1..5 |-> FloatMul(content_width, widths[k])]

\* Lines 390-394: 42%, 29% and 29% of the left 60%
left_section_col_widths_40_30_30 ==
    <<(600 * 40) \div 100, (600 * 30) \div 100, (600 * 30) \div 100>>

left_section_col_widths == <<(600 * 42) \div 100, (600 * 29) \div 100, (600 * 29) \div 100>>

\* Lines 383-387
left_section_data_ragged ==
    <<<<StrCell("QTY/VEH"), ParagraphCell("Part_per_veh"), ParagraphCell("container_type")>>,
      <<StrCell("TYPE"), ParagraphCell("Type")>>,
      <<StrCell("DATE"), ParagraphCell("today_date")>>>>

left_section_data ==
    <<<<StrCell("QTY/VEH"), ParagraphCell("Part_per_veh"), ParagraphCell("container_type")>>,
      <<StrCell("TYPE"), ParagraphCell("Type"), StrCell("")>>,
      <<StrCell("DATE"), ParagraphCell("today_date"), StrCell("")>>>>

\* Lines 331-334, 407: Paragraph(location_boxes[k]) if location_boxes[k] else ""
location_box(k) == [cell |-> "location_box", of |-> k]

\* Lines 369-408: the tables of one record
LabelLayout(logo, qr_image, widths) ==
    [assly_table |->
        [data |-> <<first_box_content(logo)
                    \o <<StrCell("ASSLY"), ParagraphCell("ASSLY")>>>>,
         colWidths |-> col_widths_assly,
         rowHeights |-> <<ASSLY_row_height>>],
     partno_table |->
        [data |-> <<<<StrCell("PART NO"), ParagraphCell("part_no"),
                      ParagraphCell("part_status")>>>>,
         colWidths |-> col_widths_partno,
         rowHeights |-> <<part_row_height>>],
     desc_table |->
        [data |-> <<<<StrCell("PART DESC"), ParagraphCell("desc")>>>>,
         colWidths |-> col_widths_standard,
         rowHeights |-> <<desc_row_height>>],
     left_section_table |->
        [data |-> left_section_data,
         colWidths |-> left_section_col_widths,
         rowHeights |-> <<bottom_row_height, bottom_row_height, bottom_row_height>>],
     bottom_section_table |->
        [data |-> <<<<TableCell("left_section_table")>> \o qr_cell(qr_image)>>,
         colWidths |-> col_widths_bottom_section,
         rowHeights |-> <<bottom_row_height * 3>>],
     location_table |->
        [data |-> <<<<StrCell("LINE LOCATION"), location_box(1), location_box(2),
                      location_box(3), location_box(4)>>>>,
         colWidths |-> col_widths_bottom(widths),
         rowHeights |-> <<location_row_height>>]]

\* Lines 194, 546, 550: return None, None
Failure == [pdf_data |-> "None", filename |-> "None"]
NotReturned == [pdf_data |-> "pending", filename |-> "pending"]

(***************************************************************************)
(* Inputs                                                                  *)
(***************************************************************************)
\* All sequences over S of length at most n
RECURSIVE SeqsUpTo(_, _)
SeqsUpTo(S, n) ==
    IF n = 0 THEN {<<>>}
    ELSE LET shorter == SeqsUpTo(S, n - 1)
         IN shorter \cup {Append(q, x) : q \in shorter, x \in S}

\* Header lists: pandas keeps column labels distinct when it reads a file
Distinct(q) == \A i, j \in 1..Len(q) : i # j => q[i] # q[j]

\* All strings over the characters in A of length at most n
RECURSIVE StringsUpTo(_, _)
StringsUpTo(A, n) ==
    IF n = 0 THEN {""}
    ELSE LET shorter == StringsUpTo(A, n - 1)
         IN shorter \cup {s \o c : s \in shorter, c \in A}

FindColumnPool ==
    {"Part No", "part_no", "Part Nos", "Pa", "Line Location", "--", "Loc Line"}

FindNamePool == {"PARTNO", "Part Number", "part", "Qty Bin"}

LocAlphabet == {"A", "1", "_"}

\* Headers a dataset may carry, and the header list of the worked scenario
ColumnPool == {"Assy_name", "Part No", "Desc", "Qty Bin", "Line Location", "Type"}

ScenarioColumns == <<"Assy_name", "Part No", "Desc", "Qty Bin">>

ColumnLists ==
    {q \in SeqsUpTo(ColumnPool, MaxColumns) : Distinct(q)} \cup {ScenarioColumns}

\* Cell texts by column position; the first four are the scenario's record
SampleRow == <<"Engine Block", "EB-001", "Main part", "5">>

CellText(j) == IF j <= Len(SampleRow) THEN SampleRow[j] ELSE "A1_B2"

CellValues(j) == {NaN, Str(""), Str(CellText(j))}

\* Records of a dataset with n columns
Rows(n) == {r \in [1..n -> {NaN, Str("")} \cup {Str(CellText(j)) : j \in 1..n}] :
               \A j \in 1..n : r[j] \in CellValues(j)}

\* The index of a dataset of n records read from a file whose rows have as
\* many fields as the header: 0 .. n - 1
RangeIndex(n) == [k \in 1..n |-> Label(k - 1)]

\* The index of a dataset of n records: that one, or, the first column of the
\* file having become the index, the same labels from the last to the first,
\* the labels from -1 on, or a text as the label of the last record
IndexLists(n) ==
    {RangeIndex(n),
     [k \in 1..n |-> Label(n - k)],
     [k \in 1..n |-> Label(k - 2)],
     [k \in 1..n |-> IF k = n THEN TextLabel ELSE Label(k - 1)]}

Dates == {[d |-> 30, m |-> 10, y |-> 2026], [d |-> 5, m |-> 1, y |-> 2027]}

\* The floats of a tuple of hundredths
Hundredths(q) == [k \in 1..Len(q) |-> Float(q[k])]

\* The five location-row fractions: the defaults of the form, another split
\* of the whole width, and two that do not add up to the whole
DefaultWidths == Hundredths(<<20, 20, 20, 20, 20>>)

WidthChoices ==
    {DefaultWidths, Hundredths(<<30, 25, 20, 15, 10>>), Hundredths(<<50, 50, 50, 50, 50>>),
     Hundredths(<<20, 20, 20, 20, 10>>)}

LogoChoices == {"None", "valid", "corrupt"}

\* Header lists of the runs that vary the layout inputs
LayoutColumnLists ==
    {ScenarioColumns, <<"Assy_name", "Part No", "Desc", "Line Location">>, <<"Part No", "Qty Bin">>}

(***************************************************************************)
(* generate_sticker_labels, step by step                                   *)
(***************************************************************************)
GenLocals ==
    /\ found_columns = <<>>
    /\ missing_required = <<>>
    /\ st_errors = <<>>
    /\ tmp_file = "absent"
    /\ today_date = ""
    /\ total_rows = 0
    /\ progress_bar = <<>>
    /\ index = Unbound
    /\ position = 0
    /\ row = <<>>
    /\ qr_data = ""
    /\ location_boxes = <<>>
    /\ all_elements = <<>>
    /\ returned = NotReturned
    /\ first_box_logo = "None"
    /\ label_layouts = <<>>

GenIdle ==
    /\ pc = "idle" /\ columns = <<>> /\ df_index = <<>> /\ GenLocals
    /\ uploaded_first_box_logo = "None" /\ line_loc_widths = DefaultWidths

(***************************************************************************)
(* generate_sticker_labels as one call: what a call leaves behind when it  *)
(* has returned, for the inputs and for what happened on the way; the      *)
(* layouts of the labels, the one part that depends on the five fractions, *)
(* are given by LabelLayouts.                                              *)
(* records is the dataset and df_index its index, qr_images says for each  *)
(* record reached how far its iteration came: "Image" or "None" (the       *)
(* outcome of generate_qr_code), "not reached" (a statement raised before  *)
(* line 317) or "no payload" (line 288 raised), ending is "built", "build  *)
(* fails", "tempfile raises" (line 197 raised), "setup raises" (a          *)
(* statement of lines 199-263 raised) or "raises" (a statement of the      *)
(* iteration of the last record of qr_images raised).                      *)
(***************************************************************************)
QrError == [msg |-> "Error generating QR code", cols |-> <<>>]
GenerateError == [msg |-> "Error in generate_sticker_labels", cols |-> <<>>]

\* Lines 317, 137-139: the errors generate_qr_code reported over the first j records
QrErrors(qr_images, j) ==
    [i \in 1..Cardinality({k \in 1..j : qr_images[k] = "None"}) |-> QrError]

\* Lines 509-523: the flowables of the first j records of the dataset
RECURSIVE ElementsOfRecords(_, _)
ElementsOfRecords(j, labels) ==
    IF j = 0 THEN <<>>
    ELSE ElementsOfRecords(j - 1, labels) \o LabelElements(j - 1)
         \o (IF NeedsPageBreak(labels[j], Len(labels)) THEN <<PageBreak(j - 1)>> ELSE <<>>)

\* Lines 369-408: the tables of the first j records
LabelLayouts(logo, qr_images, j, widths) ==
    [k \in 1..j |-> LabelLayout(logo, qr_images[k], widths)]

\* Lines 188-550: the call from the point where the columns were resolved
\* to found
OutcomeAfterResolve(found, df_columns, labels, records, uploaded_logo, date, qr_images, ending) ==
    LET n == Len(records)
        j == IF ending = "raises" THEN Len(qr_images) - 1 ELSE n
        logo == IF uploaded_logo = "None" THEN "None"
                ELSE process_uploaded_logo(uploaded_logo)
        logo_errors ==
            IF uploaded_logo # "None" /\ logo = "None"
            THEN <<[msg |-> "Error processing uploaded logo", cols |-> <<>>],
                   [msg |-> "Failed to process uploaded logo", cols |-> <<>>]>>
            ELSE <<>>
        before_loop ==
            [pc |-> "done", found_columns |-> found, missing_required |-> <<>>,
             st_errors |-> <<>>, tmp_file |-> "absent", today_date |-> "",
             total_rows |-> 0, progress_bar |-> <<>>, index |-> Unbound,
             position |-> 0, row |-> <<>>,
             qr_data |-> "", location_boxes |-> <<>>, all_elements |-> <<>>,
             returned |-> Failure, first_box_logo |-> "None"]
        laid_out ==
            [before_loop EXCEPT
                !.st_errors = logo_errors \o QrErrors(qr_images, j),
                !.tmp_file = "exists",
                !.today_date = FormatDate(date),
                !.total_rows = n,
                !.progress_bar = <<[num |-> 0, den |-> 1]>>
                                 \o [i \in 1..j |-> ProgressValue(labels[i], n)],
                !.index = IF j = 0 THEN Unbound ELSE labels[j],
                !.position = j,
                !.all_elements = ElementsOfRecords(j, labels),
                !.first_box_logo = logo]
    IN IF MissingRequired(found) # <<>>
       THEN [before_loop EXCEPT
                !.missing_required = MissingRequired(found),
                !.st_errors = <<[msg |-> "Missing required columns",
                                 cols |-> MissingRequired(found)]>>]
       ELSE IF ending = "tempfile raises"
       THEN [before_loop EXCEPT !.st_errors = <<GenerateError>>]
       ELSE IF ending = "setup raises"
       THEN [before_loop EXCEPT !.st_errors = <<GenerateError>>, !.tmp_file = "exists"]
       ELSE IF ending = "raises" /\ qr_images[j + 1] = "no payload"
       THEN [laid_out EXCEPT
                !.st_errors = Append(@, GenerateError),
                !.index = labels[j + 1],
                !.row = records[j + 1]]
       ELSE IF ending = "raises"
       THEN [laid_out EXCEPT
                !.st_errors = @ \o (IF qr_images[j + 1] = "None" THEN <<QrError>> ELSE <<>>)
                                \o <<GenerateError>>,
                !.progress_bar = Append(@, ProgressValue(labels[j + 1], n)),
                !.index = labels[j + 1],
                !.row = records[j + 1],
                !.qr_data = QrData(found, df_columns, records[j + 1], FormatDate(date)),
                !.location_boxes =
                    parse_line_location(
                        Str(OptionalValue(found, df_columns, records[j + 1],
                                          "line_location")))]
       ELSE IF ending = "build fails"
       THEN [laid_out EXCEPT
                !.st_errors = Append(@, [msg |-> "Error building PDF", cols |-> <<>>]),
                !.tmp_file = "deleted"]
       ELSE [laid_out EXCEPT
                !.tmp_file = "deleted",
                !.progress_bar = Append(@, [num |-> 1, den |-> 1]),
                !.returned = [pdf_data |-> ElementsOfRecords(j, labels),
                              filename |-> "sticker_labels.pdf"]]

\* Lines 154-550
GenerateOutcome(df_columns, labels, records, uploaded_logo, date, qr_images, ending) ==
    OutcomeAfterResolve(FindColumns(df_columns), df_columns, labels, records,
                        uploaded_logo, date, qr_images, ending)

\* The records before the first whose label is not a number
Numbered(labels) ==
    Cardinality({k \in 1..Len(labels) : \A i \in 1..k : labels[i].numeric})

\* What can happen on the way of a call on a dataset with these labels: the
\* iteration of a record whose label is not a number raises at line 288
GenerateRuns(labels) ==
    {[ending |-> e, qr_images |-> <<>>] : e \in {"tempfile raises", "setup raises"}}
    \cup {[ending |-> e, qr_images |-> q] :
             e \in IF Numbered(labels) = Len(labels) THEN {"built", "build fails"} ELSE {},
             q \in [1..Len(labels) -> {"Image", "None"}]}
    \cup UNION {{[ending |-> "raises", qr_images |-> Append(q, last)] :
                    q \in [1..j -> {"Image", "None"}],
                    last \in IF j < Numbered(labels)
                             THEN {"Image", "None", "not reached"}
                             ELSE {"no payload"}} :
                 j \in 0..((IF Numbered(labels) = Len(labels)
                            THEN Len(labels) ELSE Numbered(labels) + 1) - 1)}

\* The datasets uploaded to main: one without the assembly and description
\* columns, the worked scenario's with its one record, and the same file
\* with a comma at the end of the record, of which read_csv makes the first
\* field the label of the record
MainDatasets ==
    {[columns |-> <<"Part No", "Qty Bin">>, index |-> RangeIndex(1),
      records |-> <<<<Str("EB-001"), Str("5")>>>>],
     [columns |-> ScenarioColumns, index |-> RangeIndex(1),
      records |-> <<[k \in 1..Len(SampleRow) |-> Str(SampleRow[k])]>>],
     [columns |-> ScenarioColumns, index |-> <<TextLabel>>,
      records |-> <<<<Str(SampleRow[2]), Str(SampleRow[3]), Str(SampleRow[4]), NaN>>>>]}

\* The day main is run on
MainDates == {[d |-> 30, m |-> 10, y |-> 2026]}

\* The calls main makes: the dataset, the date of the day and what happens on
\* the way (nothing does when a required column is missing)
MainCalls ==
    UNION {{[dataset |-> d, date |-> t, run |-> r] :
               t \in MainDates,
               r \in IF MissingRequired(FindColumns(d.columns)) # <<>>
                     THEN {[ending |-> "built", qr_images |-> <<>>]}
                     ELSE GenerateRuns(d.index)} : d \in MainDatasets}

\* What each of them leaves behind (no logo was uploaded)
MainCallOutcome ==
    [c \in MainCalls |->
        GenerateOutcome(c.dataset.columns, c.dataset.index, c.dataset.records, "None",
                        c.date, c.run.qr_images, c.run.ending)]

Unset == Zero

MainLocals ==
    /\ line_loc_header_width = Unset
    /\ remaining_width = Unset
    /\ line_loc_box1_width = Unset
    /\ remaining_after_box1 = Unset
    /\ line_loc_box2_width = Unset
    /\ remaining_after_box2 = Unset
    /\ line_loc_box3_width = Unset
    /\ line_loc_box4_width = Unset
    /\ total_width = Unset
    /\ call_widths = <<>>

MainIdle == m_pc = "idle" /\ MainLocals

MainInit ==
    /\ m_pc = "header"
    /\ MainLocals
    /\ fc_pc = "idle" /\ fc_columns = <<>> /\ fc_names = <<>> /\ fc_result = NoneCol
    /\ pl_pc = "idle" /\ pl_input = None /\ pl_result = <<>>
    /\ GenIdle

\* Lines 702-714
HeaderSlider ==
    /\ m_pc = "header"
    /\ \E k \in SliderMin..HeaderMax :
         /\ line_loc_header_width' = Float(k)
         /\ remaining_width' = FloatSub(Float(100), Float(k))
    /\ m_pc' = "box1"
    /\ UNCHANGED <<line_loc_box1_width, remaining_after_box1, line_loc_box2_width,
                   remaining_after_box2, line_loc_box3_width, line_loc_box4_width,
                   total_width, call_widths, gen_vars, fc_vars, pl_vars>>

\* Lines 716-725
Box1Slider ==
    /\ m_pc = "box1"
    /\ \E v \in SliderValues(remaining_width, InitialValue(remaining_width, 4)) :
         /\ line_loc_box1_width' = v
         /\ remaining_after_box1' = FloatSub(remaining_width, v)
    /\ m_pc' = "box2"
    /\ UNCHANGED <<line_loc_header_width, remaining_width, line_loc_box2_width,
                   remaining_after_box2, line_loc_box3_width, line_loc_box4_width,
                   total_width, call_widths, gen_vars, fc_vars, pl_vars>>

\* Lines 726-735
Box2Slider ==
    /\ m_pc = "box2"
    /\ \E v \in SliderValues(remaining_after_box1,
                             InitialValue(remaining_after_box1, 3)) :
         /\ line_loc_box2_width' = v
         /\ remaining_after_box2' = FloatSub(remaining_after_box1, v)
    /\ m_pc' = "box3"
    /\ UNCHANGED <<line_loc_header_width, remaining_width, line_loc_box1_width,
                   remaining_after_box1, line_loc_box3_width, line_loc_box4_width,
                   total_width, call_widths, gen_vars, fc_vars, pl_vars>>

\* Lines 736-754: the last slider, the width left to box 4 and the total shown
Box3Slider ==
    /\ m_pc = "box3"
    /\ \E v \in SliderValues(remaining_after_box2,
                             InitialValue(remaining_after_box2, 2)) :
         /\ line_loc_box3_width' = v
         /\ line_loc_box4_width' = FloatSub(remaining_after_box2, v)
         /\ total_width' =
              FloatAdd(FloatAdd(FloatAdd(FloatAdd(line_loc_header_width,
                                                  line_loc_box1_width),
                                         line_loc_box2_width),
                                v),
                       FloatSub(remaining_after_box2, v))
    /\ m_pc' = "generate"
    /\ UNCHANGED <<line_loc_header_width, remaining_width, line_loc_box1_width,
                   remaining_after_box1, line_loc_box2_width, remaining_after_box2,
                   call_widths, gen_vars, fc_vars, pl_vars>>

\* Lines 765-770, 850-852: reading the uploaded file raises; the handler
\* reports it and the button is never shown
ReadFileRaises ==
    /\ m_pc = "generate"
    /\ st_errors' = Append(st_errors, [msg |-> "Error processing file", cols |-> <<>>])
    /\ m_pc' = "file error"
    /\ UNCHANGED <<pc, columns, df_index, found_columns, missing_required, tmp_file, today_date,
                   total_rows, progress_bar, index, position, row, qr_data, location_boxes,
                   all_elements, returned, lay_vars,
                   line_loc_header_width, remaining_width, line_loc_box1_width,
                   remaining_after_box1, line_loc_box2_width, remaining_after_box2,
                   line_loc_box3_width, line_loc_box4_width, total_width, call_widths,
                   fc_vars, pl_vars>>

\* Lines 824-848: generate_sticker_labels was called with the five fractions
\* (no logo was uploaded) and ran until it returned what outcome o records;
\* then the download button is shown, or the failure is reported once more
CallReturns(call, o, widths) ==
    /\ call_widths' = widths
    /\ columns' = call.dataset.columns
    /\ df_index' = call.dataset.index
    /\ uploaded_first_box_logo' = "None"
    /\ line_loc_widths' = widths
    /\ pc' = o.pc
    /\ found_columns' = o.found_columns
    /\ missing_required' = o.missing_required
    /\ tmp_file' = o.tmp_file
    /\ today_date' = o.today_date
    /\ total_rows' = o.total_rows
    /\ progress_bar' = o.progress_bar
    /\ index' = o.index
    /\ position' = o.position
    /\ row' = o.row
    /\ qr_data' = o.qr_data
    /\ location_boxes' = o.location_boxes
    /\ all_elements' = o.all_elements
    /\ returned' = o.returned
    /\ first_box_logo' = o.first_box_logo
    /\ label_layouts' =
         LabelLayouts(o.first_box_logo, call.run.qr_images,
                      o.position, widths)
    /\ st_errors' =
         IF o.returned.filename = "None"
         THEN st_errors \o o.st_errors
              \o <<[msg |-> "Failed to generate labels", cols |-> <<>>]>>
         ELSE st_errors \o o.st_errors
    /\ m_pc' = IF o.returned.filename = "None" THEN "failed" ELSE "download"

\* Lines 765-848: the uploaded file is read, the button is clicked, and main
\* calls generate_sticker_labels and shows what it returned
GenerateClicked ==
    /\ m_pc = "generate"
    /\ \E call \in MainCalls :
         CallReturns(call, MainCallOutcome[call],
                     <<line_loc_header_width, line_loc_box1_width,
                       line_loc_box2_width, line_loc_box3_width,
                       line_loc_box4_width>>)
    /\ UNCHANGED <<line_loc_header_width, remaining_width, line_loc_box1_width,
                   remaining_after_box1, line_loc_box2_width, remaining_after_box2,
                   line_loc_box3_width, line_loc_box4_width, total_width,
                   fc_vars, pl_vars>>

MainNext ==
    \/ HeaderSlider
    \/ Box1Slider
    \/ Box2Slider
    \/ Box3Slider
    \/ ReadFileRaises
    \/ GenerateClicked

Init ==
    /\ pc = "find_columns"
    /\ columns \in ColumnLists
    /\ df_index \in {RangeIndex(n) : n \in 0..MaxRows} \cup IndexLists(1)
    /\ uploaded_first_box_logo = "None"
    /\ line_loc_widths = DefaultWidths
    /\ GenLocals
    /\ fc_pc = "idle" /\ fc_columns = <<>> /\ fc_names = <<>> /\ fc_result = NoneCol
    /\ pl_pc = "idle" /\ pl_input = None /\ pl_result = <<>>
    /\ MainIdle

\* The same call with the layout inputs varied over a few header lists
LayoutInit ==
    /\ pc = "find_columns"
    /\ columns \in LayoutColumnLists
    /\ df_index \in UNION {IndexLists(n) : n \in 0..MaxRows}
    /\ uploaded_first_box_logo \in LogoChoices
    /\ line_loc_widths \in WidthChoices
    /\ GenLocals
    /\ fc_pc = "idle" /\ fc_columns = <<>> /\ fc_names = <<>> /\ fc_result = NoneCol
    /\ pl_pc = "idle" /\ pl_input = None /\ pl_result = <<>>
    /\ MainIdle

\* Lines 181-186
ResolveColumns ==
    /\ pc = "find_columns"
    /\ found_columns' = FindColumns(columns)
    /\ pc' = "check_required"
    /\ UNCHANGED <<columns, df_index, missing_required, st_errors, tmp_file, today_date,
                   total_rows, progress_bar, index, position, row, qr_data, location_boxes,
                   all_elements, returned, lay_vars, fc_vars, pl_vars, main_vars>>

\* Lines 188-194: some required field is not in found_columns
RejectMissingColumns ==
    /\ pc = "check_required"
    /\ MissingRequired(found_columns) # <<>>
    /\ missing_required' = MissingRequired(found_columns)
    /\ st_errors' = Append(st_errors,
                           [msg |-> "Missing required columns",
                            cols |-> MissingRequired(found_columns)])
    /\ returned' = Failure
    /\ pc' = "done"
    /\ UNCHANGED <<columns, df_index, found_columns, tmp_file, today_date, total_rows,
                   progress_bar, index, position, row, qr_data, location_boxes,
                   all_elements, lay_vars, fc_vars, pl_vars, main_vars>>

\* Lines 188-263: every required field is bound; the temporary file is made
CreateTempFile ==
    /\ pc = "check_required"
    /\ MissingRequired(found_columns) = <<>>
    /\ missing_required' = <<>>
    /\ tmp_file' = "exists"
    /\ \E t \in Dates : today_date' = FormatDate(t)
    /\ pc' = "logo"
    /\ UNCHANGED <<columns, df_index, found_columns, st_errors, total_rows, progress_bar,
                   index, position, row, qr_data, location_boxes, all_elements, returned,
                   lay_vars, fc_vars, pl_vars, main_vars>>

\* Lines 196-263, 548-550: making the temporary file raises (no writable
\* temporary directory, for one) and there is no file, or a statement after
\* it raises (the document template, a style) and the file is there; the
\* outer handler reports it and returns the failure pair, and leaves the
\* file as it is
SetupRaises ==
    /\ pc = "check_required"
    /\ MissingRequired(found_columns) = <<>>
    /\ missing_required' = <<>>
    /\ \E made \in BOOLEAN : tmp_file' = IF made THEN "exists" ELSE "absent"
    /\ st_errors' = Append(st_errors,
                           [msg |-> "Error in generate_sticker_labels", cols |-> <<>>])
    /\ returned' = Failure
    /\ pc' = "done"
    /\ UNCHANGED <<columns, df_index, found_columns, today_date, total_rows,
                   progress_bar, index, position, row, qr_data, location_boxes,
                   all_elements, lay_vars, fc_vars, pl_vars, main_vars>>

\* Lines 265-281: the uploaded logo, if any, is processed; a failure is
\* reported by process_uploaded_logo and again by the caller
ProcessLogo ==
    /\ pc = "logo"
    /\ first_box_logo' = IF uploaded_first_box_logo = "None" THEN "None"
                         ELSE process_uploaded_logo(uploaded_first_box_logo)
    /\ st_errors' = IF uploaded_first_box_logo # "None"
                       /\ process_uploaded_logo(uploaded_first_box_logo) = "None"
                    THEN st_errors
                         \o <<[msg |-> "Error processing uploaded logo", cols |-> <<>>],
                              [msg |-> "Failed to process uploaded logo", cols |-> <<>>]>>
                    ELSE st_errors
    /\ pc' = "start_loop"
    /\ UNCHANGED <<columns, df_index, found_columns, missing_required, tmp_file, today_date,
                   total_rows, progress_bar, index, position, row, qr_data, location_boxes,
                   all_elements, returned, uploaded_first_box_logo, line_loc_widths,
                   label_layouts, fc_vars, pl_vars, main_vars>>

\* Lines 283-285
StartLoop ==
    /\ pc = "start_loop"
    /\ total_rows' = Len(df_index)
    /\ progress_bar' = <<[num |-> 0, den |-> 1]>>
    /\ pc' = "loop"
    /\ UNCHANGED <<columns, df_index, found_columns, missing_required, st_errors, tmp_file,
                   today_date, index, position, row, qr_data, location_boxes, all_elements,
                   returned, lay_vars, fc_vars, pl_vars, main_vars>>

\* Lines 287-315: an iteration of  for index, row in df.iterrows()  starts:
\* index is the label of the record, a number; the progress is reported, the
\* fields are read and the payload is put together
BuildPayload ==
    /\ pc = "loop"
    /\ position < total_rows
    /\ df_index[position + 1].numeric
    /\ index' = df_index[position + 1]
    /\ \E cells \in Rows(Len(columns)) :
         /\ row' = cells
         /\ qr_data' = QrData(found_columns, columns, cells, today_date)
         /\ location_boxes' =
              parse_line_location(
                  Str(OptionalValue(found_columns, columns, cells, "line_location")))
    /\ progress_bar' = Append(progress_bar,
                              ProgressValue(df_index[position + 1], total_rows))
    /\ pc' = "layout"
    /\ UNCHANGED <<columns, df_index, found_columns, missing_required, st_errors,
                   tmp_file, today_date, total_rows, position, all_elements, returned,
                   lay_vars, fc_vars, pl_vars, main_vars>>

\* Lines 287-288, 548-550: the label of the record is not a number and
\* index + 1 raises before anything is reported; the outer handler reports
\* the exception and returns the failure pair, the temporary file is left
\* as it is
PayloadRaises ==
    /\ pc = "loop"
    /\ position < total_rows
    /\ ~df_index[position + 1].numeric
    /\ index' = df_index[position + 1]
    /\ \E cells \in Rows(Len(columns)) : row' = cells
    /\ st_errors' = Append(st_errors,
                           [msg |-> "Error in generate_sticker_labels", cols |-> <<>>])
    /\ returned' = Failure
    /\ pc' = "done"
    /\ UNCHANGED <<columns, df_index, found_columns, missing_required, tmp_file,
                   today_date, total_rows, progress_bar, position, qr_data,
                   location_boxes, all_elements, lay_vars, fc_vars, pl_vars, main_vars>>

\* Lines 317-523: the iteration ends: the QR code is generated (the image, or
\* None with an error reported), the tables of the record are made and added,
\* with a page break when the label of the record is below len(df) - 1; the
\* cells and the payload of the iteration are not read again
LayoutLabel ==
    /\ pc = "layout"
    /\ \E qr_image \in {"Image", "None"} :
         /\ st_errors' = IF qr_image = "None"
                         THEN Append(st_errors,
                                     [msg |-> "Error generating QR code", cols |-> <<>>])
                         ELSE st_errors
         /\ label_layouts' =
              Append(label_layouts, LabelLayout(first_box_logo, qr_image, line_loc_widths))
    /\ all_elements' =
         all_elements \o LabelElements(position)
                      \o (IF NeedsPageBreak(index, total_rows)
                          THEN <<PageBreak(position)>> ELSE <<>>)
    /\ position' = position + 1
    /\ row' = <<>>
    /\ qr_data' = ""
    /\ location_boxes' = <<>>
    /\ pc' = "loop"
    /\ UNCHANGED <<columns, df_index, found_columns, missing_required, tmp_file,
                   today_date, total_rows, progress_bar, index, returned,
                   uploaded_first_box_logo, line_loc_widths, first_box_logo,
                   fc_vars, pl_vars, main_vars>>

\* As LayoutRaises, but what was collected so far is returned as the document
LayoutRaisesPartial ==
    /\ pc = "layout"
    /\ \E qr_image \in {"Image", "None", "not reached"} :
         st_errors' =
            st_errors
            \o (IF qr_image = "None"
                THEN <<[msg |-> "Error generating QR code", cols |-> <<>>]>> ELSE <<>>)
            \o <<[msg |-> "Error in generate_sticker_labels", cols |-> <<>>]>>
    /\ returned' = [pdf_data |-> all_elements, filename |-> "sticker_labels.pdf"]
    /\ pc' = "done"
    /\ UNCHANGED <<columns, df_index, found_columns, missing_required, tmp_file, today_date,
                   total_rows, progress_bar, index, position, row, qr_data, location_boxes,
                   all_elements, lay_vars, fc_vars, pl_vars, main_vars>>

\* Lines 287-523, 548-550: a statement of the iteration raises (a Paragraph
\* whose text is not well-formed markup, for one); the outer handler reports
\* it and returns the failure pair, the temporary file is left as it is.
\* The statement is one before line 317 (the QR code is not reached) or one
\* after it: then generate_qr_code has run, and when it returned None it has
\* reported its own error (lines 137-139) before the handler reports the
\* exception
LayoutRaises ==
    /\ pc = "layout"
    /\ \E qr_image \in {"Image", "None", "not reached"} :
         st_errors' =
            st_errors
            \o (IF qr_image = "None"
                THEN <<[msg |-> "Error generating QR code", cols |-> <<>>]>> ELSE <<>>)
            \o <<[msg |-> "Error in generate_sticker_labels", cols |-> <<>>]>>
    /\ returned' = Failure
    /\ pc' = "done"
    /\ UNCHANGED <<columns, df_index, found_columns, missing_required, tmp_file, today_date,
                   total_rows, progress_bar, index, position, row, qr_data, location_boxes,
                   all_elements, lay_vars, fc_vars, pl_vars, main_vars>>

\* Lines 526-539: doc.build succeeds
BuildPdf ==
    /\ pc = "loop"
    /\ position = total_rows
    /\ tmp_file' = "deleted"
    /\ progress_bar' = Append(progress_bar, [num |-> 1, den |-> 1])
    /\ returned' = [pdf_data |-> all_elements, filename |-> "sticker_labels.pdf"]
    /\ pc' = "done"
    /\ UNCHANGED <<columns, df_index, found_columns, missing_required, st_errors, today_date,
                   total_rows, index, position, row, qr_data, location_boxes, all_elements,
                   lay_vars, fc_vars, pl_vars, main_vars>>

\* Lines 526-546: doc.build or the read of the file raises
BuildPdfFails ==
    /\ pc = "loop"
    /\ position = total_rows
    /\ st_errors' = Append(st_errors, [msg |-> "Error building PDF", cols |-> <<>>])
    /\ tmp_file' = "deleted"
    /\ returned' = Failure
    /\ pc' = "done"
    /\ UNCHANGED <<columns, df_index, found_columns, missing_required, today_date, total_rows,
                   progress_bar, index, position, row, qr_data, location_boxes, all_elements,
                   lay_vars, fc_vars, pl_vars, main_vars>>

Next ==
    \/ ResolveColumns
    \/ RejectMissingColumns
    \/ CreateTempFile
    \/ SetupRaises
    \/ ProcessLogo
    \/ StartLoop
    \/ BuildPayload
    \/ PayloadRaises
    \/ LayoutLabel
    \/ LayoutRaises
    \/ BuildPdf
    \/ BuildPdfFails

(***************************************************************************)
(* find_column called on its own                                           *)
(***************************************************************************)
FindInit ==
    /\ fc_pc = "call"
    /\ fc_columns \in {q \in SeqsUpTo(FindColumnPool, MaxFindColumns) : Distinct(q)}
    /\ fc_names \in SeqsUpTo(FindNamePool, MaxFindNames)
    /\ fc_result = NoneCol
    /\ pl_pc = "idle" /\ pl_input = None /\ pl_result = <<>>
    /\ GenIdle
    /\ MainIdle

FindColumnCall ==
    /\ fc_pc = "call"
    /\ fc_result' = find_column(fc_columns, fc_names)
    /\ fc_pc' = "returned"
    /\ UNCHANGED <<fc_columns, fc_names, pl_vars, gen_vars, main_vars>>

FindNext == FindColumnCall

(***************************************************************************)
(* parse_line_location called on its own                                   *)
(***************************************************************************)
ParseInit ==
    /\ pl_pc = "call"
    /\ pl_input \in {None, NaN} \cup {Str(s) : s \in StringsUpTo(LocAlphabet, MaxLocLen)}
    /\ pl_result = <<>>
    /\ fc_pc = "idle" /\ fc_columns = <<>> /\ fc_names = <<>> /\ fc_result = NoneCol
    /\ GenIdle
    /\ MainIdle

ParseLineLocationCall ==
    /\ pl_pc = "call"
    /\ pl_result' = parse_line_location(pl_input)
    /\ pl_pc' = "returned"
    /\ UNCHANGED <<pl_input, fc_vars, gen_vars, main_vars>>

ParseNext == ParseLineLocationCall

vars == <<gen_vars, fc_vars, pl_vars, main_vars>>

Spec == Init /\ [][Next]_vars
SpecLayout == LayoutInit /\ [][Next]_vars
SpecFind == FindInit /\ [][FindNext]_vars
SpecParse == ParseInit /\ [][ParseNext]_vars
SpecMain == MainInit /\ [][MainNext]_vars

(***************************************************************************)
(* Vocabulary of the properties                                            *)
(***************************************************************************)
Min(S) == CHOOSE x \in S : \A y \in S : x <= y

SeqToSet(q) == {q[i] : i \in 1..Len(q)}

\* The lines of a text: the pieces between line feeds
Lines(s) ==
    LET feeds == {i \in 1..Len(s) : SubSeq(s, i, i) = "\n"}
        \* position of the k-th line feed; 0 before the first, Len(s)+1 after the last
        Feed(k) == IF k = 0 THEN 0
                   ELSE IF k > Cardinality(feeds) THEN Len(s) + 1
                   ELSE CHOOSE p \in feeds : Cardinality({q \in feeds : q < p}) = k - 1
    IN [k \in 1..(Cardinality(feeds) + 1) |-> SubSeq(s, Feed(k - 1) + 1, Feed(k) - 1)]

\* A header and a variant that are equal, or one inside the other, once normalized
Related(header, variant) ==
    LET h == normalize_column_name(header)
        n == normalize_column_name(variant)
    IN h = n \/ StrIn(n, h) \/ StrIn(h, n)

\* No header of the list matches any variant of the list, exactly or by substring
NoVariantMatch(df_columns, variants) ==
    \A i \in 1..Len(df_columns), v \in 1..Len(variants) :
        ~Related(df_columns[i], variants[v])

HasKeywordHeader(df_columns) ==
    \E i \in 1..Len(df_columns) : LineLocKeyword(normalize_column_name(df_columns[i]))

MissingColumnsReported(f) ==
    \E e \in 1..Len(st_errors) :
        /\ st_errors[e].msg = "Missing required columns"
        /\ f \in SeqToSet(st_errors[e].cols)

\* C1: whenever no header matches a part-number variant, exactly or by
\* substring, the call ends in the missing-required-columns failure naming
\* part_no and no label is ever generated.
C1_MissingPartNoRejected ==
    (/\ pc \notin {"find_columns", "check_required"}
     /\ NoVariantMatch(columns, column_mappings["part_no"]))
    => /\ pc = "done"
       /\ returned = Failure
       /\ MissingColumnsReported("part_no")
       /\ all_elements = <<>>
       /\ position = 0

\* C2: the line-location keyword fallback serves only the line_location
\* field: any other field without an exact or substring match stays unbound,
\* even when a header carrying the keywords exists.
C2_KeywordFallbackOnlyLineLocation ==
    pc # "find_columns" =>
        \A f \in FieldSet \ {"line_location"} :
            NoVariantMatch(columns, column_mappings[f]) => f \notin DOMAIN found_columns

RequiredUnresolved == {f \in SeqToSet(required_columns) : f \notin DOMAIN found_columns}

\* C3: when a required field is unresolved the call returns the failure
\* result, never creates the temporary file, the progress indicator or a
\* label, and reports exactly the required fields absent from the column map.
C3_RejectedBeforeAnyWork ==
    (pc # "find_columns" /\ RequiredUnresolved # {}) =>
        /\ pc \in {"check_required", "done"}
        /\ tmp_file = "absent"
        /\ progress_bar = <<>>
        /\ all_elements = <<>>
        /\ position = 0
        /\ pc = "done" =>
              /\ returned = Failure
              /\ Len(st_errors) = 1
              /\ st_errors[1].msg = "Missing required columns"
              /\ SeqToSet(st_errors[1].cols) = RequiredUnresolved
              /\ Len(st_errors[1].cols) = Cardinality(RequiredUnresolved)
              /\ st_errors[1].cols = missing_required

C3_Witness ==
    /\ pc = "done"
    /\ returned = Failure
    /\ Cardinality(RequiredUnresolved) = 2
    /\ "description" \in DOMAIN found_columns
    /\ Len(columns) >= 2

\* Variants (by priority) whose normalized form equals a normalized header
ExactVariants ==
    {v \in 1..Len(fc_names) :
        \E i \in 1..Len(fc_columns) :
            normalize_column_name(fc_columns[i]) = normalize_column_name(fc_names[v])}

\* C4: when some variant equals some header after normalization, find_column
\* returns a header whose normalized form is that of the highest-priority
\* such variant, whatever matches by substring or keyword and whatever the
\* header order.
C4_ExactMatchWins ==
    (fc_pc = "returned" /\ ExactVariants # {}) =>
        /\ fc_result.found
        /\ fc_result.col \in SeqToSet(fc_columns)
        /\ normalize_column_name(fc_result.col)
             = normalize_column_name(fc_names[Min(ExactVariants)])

\* An exact match on the second variant behind an earlier header that matches
\* the first variant by substring, with a keyword header in the list too
C4_Witness ==
    /\ fc_pc = "returned"
    /\ ExactVariants = {2}
    /\ HasKeywordHeader(fc_columns)
    /\ \E i, j \in 1..Len(fc_columns) :
          /\ i < j
          /\ Related(fc_columns[i], fc_names[1])
          /\ fc_columns[j] = fc_result.col

\* Positions of the headers that normalize like the returned one
SameKey == {i \in 1..Len(fc_columns) :
               normalize_column_name(fc_columns[i]) = normalize_column_name(fc_result.col)}

\* C5: when several headers normalize to the key a field binds to,
\* find_column returns the first of them in header order.
C5_FirstOfEqualKeys ==
    (fc_pc = "returned" /\ fc_result.found /\ Cardinality(SameKey) >= 2) =>
        fc_result.col = fc_columns[Min(SameKey)]

\* Variants (by priority) in a substring relation with some header
PartialVariants ==
    {v \in 1..Len(fc_names) :
        \E i \in 1..Len(fc_columns) : Related(fc_columns[i], fc_names[v])}

\* C6: without an exact match, find_column returns the first header, in
\* header order, that is in a substring relation with the highest-priority
\* variant that has such a header.
C6_SubstringKeepsPriority ==
    (fc_pc = "returned" /\ ExactVariants = {} /\ PartialVariants # {}) =>
        LET v == Min(PartialVariants)
            hs == {i \in 1..Len(fc_columns) : Related(fc_columns[i], fc_names[v])}
        IN fc_result = SomeCol(fc_columns[Min(hs)])

\* The text a value stands for in parse_line_location
LocText == IF isna(pl_input) THEN "" ELSE pl_input.s

\* Number of underscore-separated parts of a text
UnderscoreCount(s) == Cardinality({i \in 1..Len(s) : SubSeq(s, i, i) = "_"})

\* The first n slots joined again by underscores
RECURSIVE JoinSlots(_, _)
JoinSlots(slots, n) ==
    IF n = 0 THEN ""
    ELSE IF n = 1 THEN slots[1]
    ELSE JoinSlots(slots, n - 1) \o "_" \o slots[n]

\* C7: parse_line_location returns exactly 4 string slots for every input:
\* the first min(k,4) slots are the first parts of the k underscore-separated
\* parts, the others are empty, parts beyond the 4th are dropped, and an
\* empty or absent input gives four empty strings.
C7_FourSlots ==
    pl_pc = "returned" =>
        LET k == UnderscoreCount(LocText) + 1
            m == IF k < 4 THEN k ELSE 4
            parts == SplitUnderscore(LocText)
        IN /\ Len(pl_result) = 4
           /\ \A i \in 1..4 : ~StrIn("_", pl_result[i])
           /\ \A i \in 1..4 : i <= m => pl_result[i] = parts[i]
           /\ \A i \in 1..4 : i > m => pl_result[i] = ""
           /\ k <= 4 => JoinSlots(pl_result, k) = LocText
           /\ k > 4 => /\ JoinSlots(pl_result, 4) \o "_" = SubSeq(LocText, 1, Len(JoinSlots(pl_result, 4)) + 1)
                       /\ Len(JoinSlots(pl_result, 4)) < Len(LocText)
           /\ LocText = "" => pl_result = <<"", "", "", "">>

\* Five parts, the fifth dropped, with text in the first slot
C7_Witness ==
    /\ pl_pc = "returned"
    /\ pl_input.kind = "str"
    /\ UnderscoreCount(pl_input.s) = 4
    /\ pl_result[1] # ""
    /\ Len(pl_result) = 4

OptionalFields ==
    <<"Part_per_veh", "container_type", "Type", "part_status", "line_location">>

PayloadLabel ==
    [Part_per_veh |-> "QTY/VEH", container_type |-> "Container Type", Type |-> "Type",
     part_status |-> "Part Status", line_location |-> "Line Location"]

\* The cell of the current record under the column bound to a field
FieldCell(f) == Cell(columns, row, found_columns[f])

\* The resolved value of an optional field: empty when the column is
\* unresolved or the cell is null
Resolved(f) ==
    IF f \in DOMAIN found_columns /\ ~isna(FieldCell(f)) THEN FieldCell(f).s ELSE ""

StartsWith(s, prefix) == Len(s) >= Len(prefix) /\ SubSeq(s, 1, Len(prefix)) = prefix

\* C8: the payload of a record is the ASSLY, Part No and Description lines,
\* then one labelled line for each non-empty value among quantity, container
\* type, type, part status and line location in that order, then the Date
\* line; an empty optional value contributes no line.
C8_PayloadLines ==
    pc = "layout" =>
        LET lines == Lines(qr_data)
            present == SelectSeq(OptionalFields, LAMBDA f : Resolved(f) # "")
        IN /\ Len(lines) = 4 + Len(present)
           /\ StartsWith(lines[1], "ASSLY: ")
           /\ StartsWith(lines[2], "Part No: ")
           /\ StartsWith(lines[3], "Description: ")
           /\ \A i \in 1..Len(present) :
                 lines[3 + i] = PayloadLabel[present[i]] \o ": " \o Resolved(present[i])
           /\ lines[Len(lines)] = "Date: " \o today_date
           /\ (\A i \in 1..Len(OptionalFields) : Resolved(OptionalFields[i]) = "")
                 => Len(lines) = 4

\* A record with a null cell under the column of one optional field and text
\* under the column of another: two optional lines out of five
C8_Witness ==
    /\ pc = "layout"
    /\ \E f, g \in DOMAIN found_columns \cap SeqToSet(OptionalFields) :
          /\ isna(FieldCell(f))
          /\ Resolved(g) # ""
    /\ Len(Lines(qr_data)) = 6

RequiredLabel == [ASSLY |-> "ASSLY", part_no |-> "Part No", description |-> "Description"]

\* C9: the assembly, part-number and description lines are always in the
\* payload, and a required field whose cell is null shows as "N/A".
C9_RequiredLinesNA ==
    pc = "layout" =>
        LET lines == Lines(qr_data)
        IN /\ Len(lines) >= 4
           /\ \A i \in 1..3 :
                 LET f == required_columns[i]
                 IN /\ StartsWith(lines[i], RequiredLabel[f] \o ": ")
                    /\ isna(FieldCell(f)) => lines[i] = RequiredLabel[f] \o ": N/A"

ScenarioRow == [j \in 1..4 |-> Str(SampleRow[j])]

\* C10: the headers "Assy_name", "Part No", "Desc", "Qty Bin" bind exactly
\* ASSLY, part_no, description and Part_per_veh to them and leave the other
\* four fields unresolved; the row ("Engine Block","EB-001","Main part","5")
\* gives one label whose payload is the four lines and a date line, with no
\* Type or Part Status line.  (The file of the scenario has as many fields
\* in its row as in its header, so the label of the row is 0.)
C10_EndToEndScenario ==
    (columns = ScenarioColumns /\ pc \notin {"idle", "find_columns"}) =>
        /\ found_columns = [ASSLY |-> "Assy_name", part_no |-> "Part No",
                            description |-> "Desc", Part_per_veh |-> "Qty Bin"]
        /\ (pc = "layout" /\ row = ScenarioRow) =>
              LET lines == Lines(qr_data)
              IN /\ Len(lines) = 5
                 /\ lines[1] = "ASSLY: Engine Block"
                 /\ lines[2] = "Part No: EB-001"
                 /\ lines[3] = "Description: Main part"
                 /\ lines[4] = "QTY/VEH: 5"
                 /\ StartsWith(lines[5], "Date: ")
                 /\ Len(lines[5]) = 16
                 /\ \A i \in 1..5 : ~StrIn("Type: ", lines[i]) /\ ~StrIn("Part Status: ", lines[i])
        /\ (pc \in {"loop", "done"} /\ df_index = RangeIndex(1) /\ position = 1) =>
              /\ all_elements = LabelElements(0)
              /\ (pc = "done" /\ returned # Failure) => returned.pdf_data = LabelElements(0)

C10_Witness ==
    /\ columns = ScenarioColumns
    /\ pc = "layout"
    /\ total_rows = 1
    /\ row = ScenarioRow
    /\ Len(Lines(qr_data)) = 5

(***************************************************************************)
(* Layout claims                                                           *)
(***************************************************************************)
\* The loop has run over every record and the elements go to doc.build
LoopComplete == pc \in {"loop", "done"} /\ position = total_rows

PageBreakCount == Cardinality({i \in 1..Len(all_elements) : all_elements[i].kind = "PageBreak"})

\* C11: for N >= 1 records the elements handed to the document build are the
\* N label layouts in input order with N - 1 page breaks, one after every
\* label except the last.
C11_LabelsAndPageBreaks ==
    (LoopComplete /\ total_rows >= 1) =>
        /\ Len(all_elements) = 7 * total_rows - 1
        /\ Len(label_layouts) = total_rows
        /\ PageBreakCount = total_rows - 1
        /\ \A k \in 0..(total_rows - 1) :
             SubSeq(all_elements, 7 * k + 1, 7 * k + 6) = LabelElements(k)
        /\ \A k \in 0..(total_rows - 2) : all_elements[7 * k + 7] = PageBreak(k)

RECURSIVE SumSeq(_)
SumSeq(q) == IF q = <<>> THEN 0 ELSE Head(q) + SumSeq(Tail(q))

\* C12: no label is laid out with location-row fractions whose sum is outside
\* 1.0 +/- 0.01: a call with such fractions is rejected before any record is
\* rendered, or the fractions are renormalized, so every location row laid
\* out spans the content width to within one hundredth.
C12_LocationRowSpansWidth ==
    \A k \in 1..Len(label_layouts) :
        LessEq(FloatAbs(FloatSub(FloatSum(label_layouts[k].location_table.colWidths),
                                 content_width)),
               FloatDiv(content_width, 100))

\* The cell of the graphic in the label of record k (1-based)
GraphicRow(k) == label_layouts[k].bottom_section_table.data[1]

QrErrorCount ==
    Cardinality({i \in 1..Len(st_errors) : st_errors[i].msg = "Error generating QR code"})

PlaceholderLabels ==
    {k \in 1..Len(label_layouts) :
        Len(GraphicRow(k)) = 2 /\ GraphicRow(k)[2] = ParagraphCell("QR")}

\* The call was ended by an exception in an iteration whose QR code had
\* failed, or right after an iteration whose QR code had failed
AbortedAfterQrError ==
    /\ returned = Failure
    /\ Len(st_errors) >= 2
    /\ st_errors[Len(st_errors)].msg = "Error in generate_sticker_labels"
    /\ st_errors[Len(st_errors) - 1].msg = "Error generating QR code"

\* C13: a failing QR encoder never aborts the batch: a record whose QR
\* generation returns None still gets its label, with the text placeholder
\* in the cell the graphic would have had, every other record is laid out
\* too, and N records give N labels.  As long as no other statement has
\* raised there are as many placeholder labels as QR errors reported; a QR
\* error without its label (one at most) is the error of the iteration in
\* which a later statement raised, and the error that ends a failed call is
\* never the QR error.
C13_QrFailureKeepsLabel ==
    /\ \A k \in 1..Len(label_layouts) :
          /\ Len(GraphicRow(k)) = 2
          /\ GraphicRow(k)[1] = TableCell("left_section_table")
          /\ GraphicRow(k)[2] \in {ImageCell("qr_image"), ParagraphCell("QR")}
    /\ IF AbortedAfterQrError
       THEN QrErrorCount - Cardinality(PlaceholderLabels) \in {0, 1}
       ELSE Cardinality(PlaceholderLabels) = QrErrorCount
    /\ LoopComplete => Len(label_layouts) = total_rows
    /\ (returned = Failure /\ st_errors # <<>>) =>
          st_errors[Len(st_errors)].msg # "Error generating QR code"

C13_Witness ==
    /\ pc = "done"
    /\ total_rows = 2
    /\ returned.filename = "sticker_labels.pdf"
    /\ Len(label_layouts) = 2
    /\ PlaceholderLabels = {1}
    /\ QrErrorCount = 1

\* The flowables of the labels of n records, one label after the other
IsLabelElement(e) == e.kind # "PageBreak"

RECURSIVE AllLabelElements(_)
AllLabelElements(n) ==
    IF n = 0 THEN <<>> ELSE AllLabelElements(n - 1) \o LabelElements(n - 1)

\* C14: a call ends in one of two outcomes and never in an exception: the
\* complete artifact (document and file name both present, the document
\* covering every record) or the pair (None, None); when the build or an
\* earlier step fails the result is the failure pair, never a document of
\* part of the records.  (Covering every record: the flowables of the
\* document, the page breaks aside, are those of the labels of all records
\* in input order.)
C14_ArtifactOrFailurePair ==
    /\ pc # "done" => returned = NotReturned
    /\ pc = "done" =>
          IF returned.filename = "None"
          THEN returned.pdf_data = "None"
          ELSE /\ returned.filename = "sticker_labels.pdf"
               /\ returned.pdf_data = all_elements
               /\ position = total_rows
               /\ Len(label_layouts) = total_rows
               /\ SelectSeq(all_elements, IsLabelElement) = AllLabelElements(total_rows)

\* The second record raises after the first was laid out
C14_Witness ==
    /\ pc = "done"
    /\ returned.filename = "None"
    /\ returned.pdf_data = "None"
    /\ Len(label_layouts) = 1
    /\ total_rows = 2
    /\ st_errors[Len(st_errors)].msg = "Error in generate_sticker_labels"

\* The values reported over the records and at the end of the run (the
\* indicator is created with the value 0 before the first record)
ReportedProgress == IF progress_bar = <<>> THEN <<>> ELSE Tail(progress_bar)

Succeeded == pc = "done" /\ returned.filename = "sticker_labels.pdf"

\* C15: the progress reported over the records of a run, (index + 1) / total,
\* never decreases from one record to the next, lies in (0, 1], and is 1.0
\* when the batch has completed successfully.
C15_ProgressMonotone ==
    /\ \A i \in 1..Len(ReportedProgress) :
          /\ ReportedProgress[i].den > 0
          /\ 0 < ReportedProgress[i].num
          /\ ReportedProgress[i].num <= ReportedProgress[i].den
    /\ \A i, j \in 1..Len(ReportedProgress) :
          i < j => ReportedProgress[i].num * ReportedProgress[j].den
                     <= ReportedProgress[j].num * ReportedProgress[i].den
    /\ \A i \in 1..Len(ReportedProgress) :
          (i <= total_rows) => ReportedProgress[i] = [num |-> i, den |-> total_rows]
    /\ Succeeded =>
          /\ Len(ReportedProgress) = total_rows + 1
          /\ ReportedProgress[Len(ReportedProgress)].num
               = ReportedProgress[Len(ReportedProgress)].den

\* The identity row of the label of record k (1-based)
IdentityRow(k) == label_layouts[k].assly_table.data[1]

\* C16: the identity row of every label has exactly three cells, of 25%, 15%
\* and 60% of the content width, whether a logo was supplied, not supplied or
\* failed to process; without a usable logo the first cell is there and empty.
C16_IdentityRowThreeCells ==
    \A k \in 1..Len(label_layouts) :
        /\ Len(label_layouts[k].assly_table.data) = 1
        /\ Len(IdentityRow(k)) = 3
        /\ label_layouts[k].assly_table.colWidths = <<250, 150, 600>>
        /\ IdentityRow(k)[2] = StrCell("ASSLY")
        /\ IdentityRow(k)[3] = ParagraphCell("ASSLY")
        /\ IdentityRow(k)[1] = IF uploaded_first_box_logo = "valid"
                               THEN ImageCell("first_box_logo") ELSE StrCell("")

\* A label laid out after the uploaded logo failed to process
C16_Witness ==
    /\ uploaded_first_box_logo = "corrupt"
    /\ \E i \in 1..Len(st_errors) : st_errors[i].msg = "Failed to process uploaded logo"
    /\ Len(label_layouts) >= 1
    /\ IdentityRow(1)[1] = StrCell("")
    /\ Len(IdentityRow(1)) = 3

GraphicCells == {ImageCell("qr_image"), ParagraphCell("QR")}

\* Positions of the graphic in the bottom section of the label of record k
GraphicPositions(k) ==
    {i \in 1..Len(GraphicRow(k)) : GraphicRow(k)[i] \in GraphicCells}

LeftRows(k) == label_layouts[k].left_section_table.data

\* C17: in every label the graphic (or its placeholder) is placed exactly
\* once, in a region 40% of the content width wide and as high as the
\* quantity, type and date rows together; the type and date rows keep their
\* trailing cell, empty, so the three rows have the same number of cells.
C17_GraphicSpansThreeRows ==
    \A k \in 1..Len(label_layouts) :
        /\ Len(label_layouts[k].bottom_section_table.data) = 1
        /\ Cardinality(GraphicPositions(k)) = 1
        /\ \A i \in GraphicPositions(k) :
              label_layouts[k].bottom_section_table.colWidths[i] = 400
        /\ \A r \in 1..Len(LeftRows(k)) : \A c \in 1..Len(LeftRows(k)[r]) :
              LeftRows(k)[r][c] \notin GraphicCells
        /\ Len(LeftRows(k)) = 3
        /\ Len(label_layouts[k].left_section_table.rowHeights) = 3
        /\ label_layouts[k].bottom_section_table.rowHeights
              = <<SumSeq(label_layouts[k].left_section_table.rowHeights)>>
        /\ LeftRows(k)[1][1] = StrCell("QTY/VEH")
        /\ LeftRows(k)[2][1] = StrCell("TYPE")
        /\ LeftRows(k)[3][1] = StrCell("DATE")
        /\ \A r \in 2..3 :
              /\ Len(LeftRows(k)[r]) = Len(LeftRows(k)[1])
              /\ LeftRows(k)[r][Len(LeftRows(k)[r])] = StrCell("")

C17_Witness ==
    /\ Len(label_layouts) = 2
    /\ GraphicRow(1)[2] = ImageCell("qr_image")
    /\ GraphicRow(2)[2] = ParagraphCell("QR")
    /\ label_layouts[2].bottom_section_table.rowHeights = <<180>>
    /\ Len(LeftRows(2)[3]) = 3

\* Widths of the cells of row r of the left section of the label of record k
LeftWidths(k) == label_layouts[k].left_section_table.colWidths

\* C18: in every label the Type row and the Date row give the header cell
\* 25% of the content width and the value cell 35%, the remaining 40% being
\* the span of the graphic.
C18_TypeDateQuarterAndThirtyFive ==
    \A k \in 1..Len(label_layouts) :
        /\ LeftRows(k)[2][1] = StrCell("TYPE") /\ LeftRows(k)[3][1] = StrCell("DATE")
        /\ LeftWidths(k)[1] = 250
        /\ LeftWidths(k)[2] = 350
        /\ label_layouts[k].bottom_section_table.colWidths[2] = 400

\* C18 as amended: the header cell of the Type and Date rows is 25.2% of the
\* content width (42% of the left 60%), the value cell 17.4% (29% of it) and
\* the empty cell after it 17.4%, 60% together, the remaining 40% being the
\* span of the graphic.
C18_TypeDateWidths ==
    \A k \in 1..Len(label_layouts) :
        /\ LeftRows(k)[2] = <<StrCell("TYPE"), ParagraphCell("Type"), StrCell("")>>
        /\ LeftRows(k)[3] = <<StrCell("DATE"), ParagraphCell("today_date"), StrCell("")>>
        /\ LeftWidths(k) = <<252, 174, 174>>
        /\ SumSeq(LeftWidths(k)) = label_layouts[k].bottom_section_table.colWidths[1]
        /\ label_layouts[k].bottom_section_table.colWidths = <<600, 400>>
        /\ GraphicPositions(k) = {2}

C18_Witness ==
    /\ Len(label_layouts) = 2
    /\ pc = "loop"
    /\ LeftWidths(2)[2] = 174
    /\ LeftRows(2)[2][2] = ParagraphCell("Type")

\* C20: after column resolution no two different canonical fields are bound
\* to the same column of the dataset: the column map is injective for every
\* header list.
C20_ColumnMapInjective ==
    pc # "find_columns" =>
        \A f, g \in DOMAIN found_columns :
            f # g => found_columns[f] # found_columns[g]

\* main has called generate_sticker_labels
Called == m_pc \in {"download", "failed"}

\* C19: for every combination of slider values (header in [0.05, 0.50], each
\* of boxes 1-3 from 0.05 up to the width still remaining, in steps of 0.01)
\* the five fractions passed to generate_sticker_labels sum to exactly 1.0
\* and the width left to box 4 is never negative.
C19_FractionsSumToOne ==
    Called =>
        /\ FloatSum(call_widths) = Float(100)
        /\ ~IsNegative(call_widths[5])

\* 1.0
One == Float(100)

\* |x| <= 2^-52
WithinRounding(x) ==
    \/ IsZero(x)
    \/ x.exp < -104
    \/ x.exp = -104 /\ x.hi = Pow2[24] /\ x.lo = 0

\* C19 as amended: the five fractions sum to 1.0 up to the rounding of the
\* float arithmetic, the sum being within 2^-52 of 1.0 (and 1.0 in the
\* reals), and the width left to box 4 is never negative.
C19_FractionsSumToOneRounded ==
    Called =>
        /\ FloatSum(call_widths) = total_width
        /\ WithinRounding(FloatSub(total_width, One))
        /\ ~IsNegative(call_widths[5])

\* Header and boxes 1-3 at 0.05: box 4 is 0.7999999999999998 and the float
\* total 0.9999999999999998
C19_Witness ==
    /\ Called
    /\ \A k \in 1..4 : call_widths[k] = Float(5)
    /\ ~IsNegative(call_widths[5])
    /\ FloatSum(call_widths) # Float(100)
    /\ WithinRounding(FloatSub(FloatSum(call_widths), Float(100)))

\* C21: find_column never binds a field to a header whose normalized form is
\* the empty string (a header of non-alphanumeric characters only), whatever
\* the header list and the variant list.
C21_NeverBindsEmptyNormalizedHeader ==
    (fc_pc = "returned" /\ fc_result.found) =>
        normalize_column_name(fc_result.col) # ""

\* C22: whenever generate_sticker_labels returns after having created its
\* temporary file, the file has been deleted: on success, on a failure of
\* the document build, and on a failure raised while a record is laid out.
C22_TempFileDeletedOnReturn ==
    (pc = "done" /\ tmp_file # "absent") => tmp_file = "deleted"
====
